---------------------------- MODULE Spec2Model ----------------------------
(***************************************************************************)
(* A model of subreddit_stats.py (class SubRedditStats and main).          *)
(*                                                                         *)
(* Text is modelled as a sequence of tokens.  A token is a record          *)
(*   [t |-> "lit",  n |-> k]   k characters that are neither digits nor    *)
(*                             part of the marker or prefix literals,      *)
(*   [t |-> "mark", n |-> 12]  the literal 'SRS Marker: ' of re_marker,    *)
(*   [t |-> "pre",  n |-> 16]  the literal 'Subreddit Stats:' post_prefix, *)
(*   [t |-> "dig",  n |-> d]   the one decimal digit d,                    *)
(*   [t |-> "sp"], [t |-> "nl"], [t |-> "us"]   one space, newline,        *)
(*                             underscore.                                 *)
(* A "lit" token never stands right after a "mark" token with a digit as   *)
(* its first character, so only "dig" tokens complete a marker match.      *)
(* Timestamps are whole seconds, as the content source reports them.       *)
(***************************************************************************)
EXTENDS Integers, Sequences, FiniteSets, TLC

VARIABLES
    pc,              \* position of the run in main / the current method
    now,             \* time.time() at construction
    opt_days,        \* options.days
    opt_prev,        \* options.prev: the previous report, or NoPrev
    opt_no_self,     \* options.no_self
    listing,         \* subreddit.get_new_by_date(): newest first
    pos,             \* index of the next listing element the loop takes
    min_date,        \* self.min_date
    max_date,        \* self.max_date
    prev_srs,        \* self.prev_srs
    submissions,     \* self.submissions
    opt_submitters,  \* options.submitters
    opt_commenters,  \* options.commenters
    opt_debug,       \* options.debug
    comments,        \* self.comments
    submitters,      \* self.submitters, as (author, items) pairs in iteration order
    commenters,      \* self.commenters, likewise
    body,            \* publish_results: body
    num_submissions, \* publish_results: num_submissions
    debug,           \* publish_results: debug
    answer,          \* sys.stdin.readline().strip().lower(), once read
    out,             \* what the run has printed, in order
    attempts,        \* _submit: the outcome of each call of func so far
    sleeps,          \* _submit: the durations slept so far
    raised,          \* the exception that ended the method, if one did
    rank_of,         \* which top_* method was applied last
    rank_n,          \* its num argument
    rank_list,       \* the authors it listed, in order
    rank_text        \* the text it returned

main_vars == <<now, opt_days, opt_prev, opt_no_self, listing, pos>>

pub_vars == <<opt_submitters, opt_commenters, opt_debug, comments, submitters,
              commenters, body, num_submissions, debug, answer, out>>

submit_vars == <<attempts, sleeps>>

rank_vars == <<rank_of, rank_n, rank_list, rank_text>>

vars == <<pc, main_vars, min_date, max_date, prev_srs, submissions, pub_vars,
          submit_vars, raised, rank_vars>>

-----------------------------------------------------------------------------
(* Text *)

Max(a, b) == IF a >= b THEN a ELSE b
Min(a, b) == IF a <= b THEN a ELSE b

Lit(s)  == [t |-> "lit", n |-> Len(s)]
Fill(k) == [t |-> "lit", n |-> k]
Dig(d)  == [t |-> "dig", n |-> d]
Mark    == [t |-> "mark", n |-> Len("SRS Marker: ")]
Pre     == [t |-> "pre", n |-> Len("Subreddit Stats:")]
Sp      == [t |-> "sp", n |-> Len(" ")]
Nl      == [t |-> "nl", n |-> Len("\n")]
Us      == [t |-> "us", n |-> Len("_")]

\* len(text)
TokLen(tok) == IF tok.t = "dig" THEN 1 ELSE tok.n

RECURSIVE TextLen(_)
TextLen(text) ==
    IF Len(text) = 0 THEN 0
    ELSE IF Len(text) = 1 THEN TokLen(text[1])
    ELSE LET half == Len(text) \div 2
         IN  TextLen(SubSeq(text, 1, half)) + TextLen(SubSeq(text, half + 1, Len(text)))

\* '%d' % n
RECURSIVE Digits(_)
Digits(n) == IF n < 10 THEN <<Dig(n)>> ELSE Digits(n \div 10) \o <<Dig(n % 10)>>

Fmt_d(n) == IF n < 0 THEN <<Lit("-")>> \o Digits(0 - n) ELSE Digits(n)

\* the longest run of digit tokens that text starts with, as digit values
RECURSIVE DigitRun(_)
DigitRun(text) ==
    IF text # <<>> /\ Head(text).t = "dig"
    THEN <<Head(text).n>> \o DigitRun(Tail(text))
    ELSE <<>>

\* where the matches of 'SRS Marker: (\d+)' start: a match is the marker literal
\* and the digits after it, so no two matches overlap
MatchStarts(text) ==
    { i \in 1..(Len(text) - 1) : text[i].t = "mark" /\ text[i + 1].t = "dig" }

RECURSIVE Ascending(_)
Ascending(S) ==
    IF S = {} THEN <<>>
    ELSE LET least == CHOOSE i \in S : \A j \in S : i <= j
         IN  <<least>> \o Ascending(S \ {least})

\* re_marker.findall(text): the groups (\d+) of the matches, left to right
re_marker_findall(text) ==
    LET starts == Ascending(MatchStarts(text))
    IN  [m \in 1..Len(starts) |->
           DigitRun(SubSeq(text, starts[m] + 1, Len(text)))]

\* float(val) of a string of decimal digits
RECURSIVE ToFloat(_)
ToFloat(ds) ==
    IF ds = <<>> THEN 0 ELSE 10 * ToFloat(SubSeq(ds, 1, Len(ds) - 1)) + ds[Len(ds)]

LastMatch_First(matches) == matches[1]

\* findall(...)[-1]
LastMatch(matches) == matches[Len(matches)]

\* _previous_max(submission): the value, or ok = FALSE where the code prints
\* 'End marker not found ...' and calls sys.exit(1)
_previous_max(selftext) ==
    LET matches == re_marker_findall(selftext)
    IN  IF matches = <<>> THEN [ok |-> FALSE, val |-> 0]
        ELSE [ok |-> TRUE, val |-> ToFloat(LastMatch(matches))]

-----------------------------------------------------------------------------
(* Inputs of the window-mode collection *)

DAYS_IN_SECONDS == 60 * 60 * 24

MaxListing == 3

Me == "srs_bot"

NoneLink == [some |-> FALSE, id |-> 0]
Link(i)  == [some |-> TRUE, id |-> i]

NoPrev == [given |-> FALSE, selftext |-> <<>>, id |-> 0]

PlainTitle    == <<Fill(20)>>
ReportTitle   == <<Pre, Fill(40)>>
Text15        == <<Fill(300), Mark, Dig(1), Dig(5)>>
Text9then32   == <<Fill(30), Mark, Dig(9), Fill(200), Mark, Dig(3), Dig(2)>>
TextNoMarker  == <<Fill(300), Mark, Fill(3)>>

\* what the scan reads of a post, apart from created_utc and its identity
PostKinds ==
    { [author |-> Me,  title |-> PlainTitle,  is_self |-> TRUE,  selftext |-> <<Fill(50)>>],
      [author |-> "A", title |-> ReportTitle, is_self |-> FALSE, selftext |-> <<>>],
      [author |-> Me,  title |-> ReportTitle, is_self |-> TRUE,  selftext |-> Text15],
      [author |-> Me,  title |-> ReportTitle, is_self |-> TRUE,  selftext |-> Text9then32],
      [author |-> Me,  title |-> ReportTitle, is_self |-> TRUE,  selftext |-> TextNoMarker] }

CreatedValues == {10, 20, 30, 40}

Nows == {3 * DAYS_IN_SECONDS + 35, 4 * DAYS_IN_SECONDS + 20}

Durations == {0, 1}

PrevOptions ==
    { NoPrev,
      [given |-> TRUE, selftext |-> Text15, id |-> 9],
      [given |-> TRUE, selftext |-> TextNoMarker, id |-> 9] }

MkPost(i, c, k) ==
    [id |-> i, created_utc |-> c, author |-> k.author, title |-> k.title,
     is_self |-> k.is_self, selftext |-> k.selftext]

\* newest-first listings of at most MaxListing posts
Listings ==
    UNION { { [i \in 1..n |-> MkPost(i, cs[i], ks[i])] :
                cs \in { c \in [1..n -> CreatedValues] :
                           \A i \in 1..n, j \in 1..n : i < j => c[i] > c[j] },
                ks \in [1..n -> PostKinds] } : n \in 0..MaxListing }

-----------------------------------------------------------------------------
(* __init__, prev_stat, fetch_recent_submissions *)

\* the default of the since_last parameter; main never passes another
since_last == TRUE

\* max_date of __init__
GraceBound(t) == t - DAYS_IN_SECONDS * 3

\* min_date after the 'if max_duration' of fetch_recent_submissions
DurationBound(lo, hi, days) ==
    IF days # 0 THEN hi - DAYS_IN_SECONDS * days ELSE lo

TooRecent(s, hi) == s.created_utc > hi

TooOld_Strict(s, lo) == s.created_utc < lo

TooOld(s, lo) == s.created_utc <= lo

StartsWithPrefix(title) == title # <<>> /\ Head(title).t = "pre"

IsPreviousReport(s) ==
    since_last /\ s.author = Me /\ StartsWithPrefix(s.title)

UseMarker_Always(link) == TRUE

UseMarker(link) == link = NoneLink

RaiseMinDate(lo, marker) == Max(lo, marker)

DropsSelf(s, exclude_self) == exclude_self /\ s.is_self

NoError == [kind |-> "none", sleep_time |-> 0, errors |-> <<>>]

\* the variables of publish_results, _submit and the ranking before they run
PublishIdle ==
    /\ opt_submitters = 0
    /\ opt_commenters = 0
    /\ opt_debug = FALSE
    /\ comments = <<>>
    /\ submitters = <<>>
    /\ commenters = <<>>
    /\ body = <<>>
    /\ num_submissions = 0
    /\ debug = FALSE
    /\ answer = <<>>
    /\ out = <<>>

SubmitIdle ==
    /\ attempts = <<>>
    /\ sleeps = <<>>
    /\ raised = NoError

RankIdle ==
    /\ rank_of = "none"
    /\ rank_n = 0
    /\ rank_list = <<>>
    /\ rank_text = <<>>

InitFetch ==
    /\ pc = "main"
    /\ now \in Nows
    /\ opt_days \in Durations
    /\ opt_prev \in PrevOptions
    /\ opt_no_self \in BOOLEAN
    /\ listing \in Listings
    /\ pos = 1
    /\ min_date = 0
    /\ max_date = GraceBound(now)
    /\ prev_srs = NoneLink
    /\ submissions = <<>>
    /\ PublishIdle
    /\ SubmitIdle
    /\ RankIdle

\* main: 'if options.prev: srs.prev_stat(options.prev)'
PrevStat ==
    /\ pc = "main"
    /\ opt_prev.given
    /\ LET r == _previous_max(opt_prev.selftext)
       IN  IF r.ok
           THEN /\ min_date' = r.val
                /\ prev_srs' = Link(opt_prev.id)
                /\ pc' = "fetch"
           ELSE /\ pc' = "exit"
                /\ UNCHANGED <<min_date, prev_srs>>
    /\ UNCHANGED <<now, opt_days, opt_prev, opt_no_self, listing, pos,
                   max_date, submissions>>
    /\ UNCHANGED <<pub_vars, submit_vars, raised, rank_vars>>

NoPrevStat ==
    /\ pc = "main"
    /\ ~opt_prev.given
    /\ pc' = "fetch"
    /\ UNCHANGED <<now, opt_days, opt_prev, opt_no_self, listing, pos,
                   min_date, max_date, prev_srs, submissions>>
    /\ UNCHANGED <<pub_vars, submit_vars, raised, rank_vars>>

\* fetch_recent_submissions up to the loop
FetchBegin ==
    /\ pc = "fetch"
    /\ min_date' = DurationBound(min_date, max_date, opt_days)
    /\ pc' = "scan"
    /\ UNCHANGED <<now, opt_days, opt_prev, opt_no_self, listing, pos,
                   max_date, prev_srs, submissions>>
    /\ UNCHANGED <<pub_vars, submit_vars, raised, rank_vars>>

\* one iteration of the loop over the listing
ScanStep ==
    /\ pc = "scan"
    /\ pos <= Len(listing)
    /\ LET s == listing[pos]
       IN  IF TooRecent(s, max_date)
           THEN /\ pos' = pos + 1
                /\ UNCHANGED <<pc, min_date, prev_srs, submissions>>
           ELSE IF TooOld(s, min_date)
           THEN /\ pc' = "scanned"
                /\ UNCHANGED <<pos, min_date, prev_srs, submissions>>
           ELSE IF IsPreviousReport(s)
           THEN IF UseMarker(prev_srs)
                THEN LET r == _previous_max(s.selftext)
                     IN  IF r.ok
                         THEN /\ min_date' = RaiseMinDate(min_date, r.val)
                              /\ prev_srs' = Link(s.id)
                              /\ pos' = pos + 1
                              /\ UNCHANGED <<pc, submissions>>
                         ELSE /\ pc' = "exit"
                              /\ UNCHANGED <<pos, min_date, prev_srs, submissions>>
                ELSE /\ pos' = pos + 1
                     /\ UNCHANGED <<pc, min_date, prev_srs, submissions>>
           ELSE IF DropsSelf(s, opt_no_self)
           THEN /\ pos' = pos + 1
                /\ UNCHANGED <<pc, min_date, prev_srs, submissions>>
           ELSE /\ submissions' = Append(submissions, s)
                /\ pos' = pos + 1
                /\ UNCHANGED <<pc, min_date, prev_srs>>
    /\ UNCHANGED <<now, opt_days, opt_prev, opt_no_self, listing, max_date>>
    /\ UNCHANGED <<pub_vars, submit_vars, raised, rank_vars>>

\* the listing is exhausted
ScanEnd ==
    /\ pc = "scan"
    /\ pos > Len(listing)
    /\ pc' = "scanned"
    /\ UNCHANGED <<now, opt_days, opt_prev, opt_no_self, listing, pos,
                   min_date, max_date, prev_srs, submissions>>
    /\ UNCHANGED <<pub_vars, submit_vars, raised, rank_vars>>

\* sorted(key=created_utc): stable, ascending
RECURSIVE InsertByCreated(_, _)
InsertByCreated(sorted, s) ==
    IF sorted = <<>> THEN <<s>>
    ELSE IF sorted[Len(sorted)].created_utc <= s.created_utc
         THEN Append(sorted, s)
         ELSE Append(InsertByCreated(SubSeq(sorted, 1, Len(sorted) - 1), s),
                     sorted[Len(sorted)])

RECURSIVE SortByCreated(_)
SortByCreated(seq) ==
    IF seq = <<>> THEN <<>>
    ELSE InsertByCreated(SortByCreated(SubSeq(seq, 1, Len(seq) - 1)), seq[Len(seq)])

\* fetch_recent_submissions after the loop
FetchEnd ==
    /\ pc = "scanned"
    /\ IF Len(submissions) = 0
       THEN /\ pc' = "notfound"
            /\ UNCHANGED <<min_date, max_date, submissions>>
       ELSE LET sorted == SortByCreated(submissions)
            IN  /\ submissions' = sorted
                /\ min_date' = sorted[1].created_utc
                /\ max_date' = sorted[Len(sorted)].created_utc
                /\ pc' = "found"
    /\ UNCHANGED <<now, opt_days, opt_prev, opt_no_self, listing, pos, prev_srs>>
    /\ UNCHANGED <<pub_vars, submit_vars, raised, rank_vars>>

NextFetch ==
    \/ PrevStat
    \/ NoPrevStat
    \/ FetchBegin
    \/ ScanStep
    \/ ScanEnd
    \/ FetchEnd

SpecFetch == InitFetch /\ [][NextFetch]_vars

-----------------------------------------------------------------------------
(* Helpers of the report: slices, sums, sorted(..., reverse=True) *)

\* seq[:k]
Take(seq, k) == SubSeq(seq, 1, Min(k, Len(seq)))

RECURSIVE SumSeq(_)
SumSeq(ints) == IF ints = <<>> THEN 0 ELSE Head(ints) + SumSeq(Tail(ints))

\* the orderings of the keys: integers, or pairs compared lexicographically
KeyLess(a, b) == a.k1 < b.k1 \/ (a.k1 = b.k1 /\ a.k2 < b.k2)

\* sorted(..., reverse=True) is stable: elements with equal keys keep their order
RECURSIVE InsertDesc(_, _)
InsertDesc(sorted, x) ==
    IF sorted = <<>> THEN <<x>>
    ELSE IF KeyLess(sorted[Len(sorted)].key, x.key)
         THEN Append(InsertDesc(SubSeq(sorted, 1, Len(sorted) - 1), x),
                     sorted[Len(sorted)])
         ELSE Append(sorted, x)

RECURSIVE SortedReverseKeyed(_)
SortedReverseKeyed(keyed) ==
    IF keyed = <<>> THEN <<>>
    ELSE InsertDesc(SortedReverseKeyed(SubSeq(keyed, 1, Len(keyed) - 1)),
                    keyed[Len(keyed)])

\* sorted(seq, reverse=True, key=...), keys[i] being the key of seq[i]
SortedReverse(seq, keys) ==
    LET keyed  == [i \in 1..Len(seq) |-> [key |-> keys[i], v |-> seq[i]]]
        sorted == SortedReverseKeyed(keyed)
    IN  [i \in 1..Len(sorted) |-> sorted[i].v]

-----------------------------------------------------------------------------
(* _user, _permalink, title clean-up *)

\* a deleted account: author is None
None == <<>>

\* user.replace('_', '\_')
RECURSIVE EscapeUnderscores(_)
EscapeUnderscores(name) ==
    IF name = <<>> THEN <<>>
    ELSE (IF Head(name).t = "us" THEN <<Lit("\\_")>> ELSE <<Head(name)>>)
         \o EscapeUnderscores(Tail(name))

_user(author) ==
    IF author = None THEN <<Lit("_deleted_")>>
    ELSE <<Lit("[")>> \o EscapeUnderscores(author) \o <<Lit("](/user/")>>
         \o author \o <<Lit(")")>>

\* a permalink is known by tokens[6], the submission id, and tokens[8], the
\* comment id, empty for a submission
_permalink(p) ==
    IF p.comment_id = <<>>
    THEN <<Lit("/comments/")>> \o p.submission_id \o <<Lit("/_/")>>
    ELSE <<Lit("/comments/")>> \o p.submission_id \o <<Lit("/_/")>>
         \o p.comment_id \o <<Lit("?context=1")>>

\* a submission id, six characters
IdText == <<Fill(Len("2qk3z8"))>>

\* the permalink of a submission
SubmissionPermalink == [submission_id |-> IdText, comment_id |-> <<>>]

\* the permalink of a comment, whose id has seven characters
CommentPermalink == [submission_id |-> IdText, comment_id |-> <<Fill(Len("c1a2b3c"))>>]

RECURSIVE ReplaceNewlines(_)
ReplaceNewlines(text) ==
    IF text = <<>> THEN <<>>
    ELSE <<IF Head(text).t = "nl" THEN Sp ELSE Head(text)>>
         \o ReplaceNewlines(Tail(text))

IsSpace(tok) == tok.t \in {"sp", "nl"}

RECURSIVE LStrip(_)
LStrip(text) ==
    IF text # <<>> /\ IsSpace(Head(text)) THEN LStrip(Tail(text)) ELSE text

RECURSIVE RStrip(_)
RStrip(text) ==
    IF text # <<>> /\ IsSpace(text[Len(text)])
    THEN RStrip(SubSeq(text, 1, Len(text) - 1)) ELSE text

\* title.replace('\n', ' ').strip()
CleanTitle(title) == RStrip(LStrip(ReplaceNewlines(title)))

-----------------------------------------------------------------------------
(* process_submitters, process_commenters *)

\* defaultdict(list)[author].append(item); the mapping is the sequence of its
\* (author, items) pairs in iteration order
AppendTo(groups, author, item) ==
    IF \E i \in 1..Len(groups) : groups[i].author = author
    THEN [i \in 1..Len(groups) |->
            IF groups[i].author = author
            THEN [groups[i] EXCEPT !.items = Append(@, item)]
            ELSE groups[i]]
    ELSE Append(groups, [author |-> author, items |-> <<item>>])

RECURSIVE GroupByAuthor(_)
GroupByAuthor(items) ==
    IF items = <<>> THEN <<>>
    ELSE LET rest == GroupByAuthor(SubSeq(items, 1, Len(items) - 1))
             item == items[Len(items)]
         IN  IF item.author # None THEN AppendTo(rest, item.author, item) ELSE rest

\* the comments process_commenters collects from the submissions, in order
RECURSIVE CollectComments(_)
CollectComments(subs) ==
    IF subs = <<>> THEN <<>>
    ELSE LET s == Head(subs)
         IN  (IF s.num_comments = 0 THEN <<>>
              ELSE (IF s.comments_raise THEN <<>> ELSE s.all_comments_flat)
                   \o s.orphaned)
             \o CollectComments(Tail(subs))

-----------------------------------------------------------------------------
(* basic_stats and the top_* sections *)

MAX_BODY_SIZE == 10000

post_header(name) == <<Lit("---\n###"), Lit(name), Lit("\n")>>

Ups(items)   == SumSeq([i \in 1..Len(items) |-> items[i].ups])
Downs(items) == SumSeq([i \in 1..Len(items) |-> items[i].downs])

\* the denominators of the two percentages of basic_stats
SubVotes(subs)  == Ups(subs) + Downs(subs)
CommVotes(coms) == Ups(coms) + Downs(coms)

\* True where the interpreter raises ZeroDivisionError
DivisionRaises(denominator) == denominator = 0

StatsRow(label, a, pa, b, pb) ==
    <<Lit("__"), Lit(label), Lit("__|")>> \o Fmt_d(a) \o <<Lit("|")>> \o pa
    \o <<Lit("|")>> \o Fmt_d(b) \o <<Lit("|")>> \o pb \o <<Lit("\n")>>

Percent(p) == Fmt_d(p) \o <<Lit("%")>>

\* basic_stats(): raised = TRUE for the ZeroDivisionError of lines 212-213
basic_stats(subs, coms, subrs, comrs) ==
    IF DivisionRaises(SubVotes(subs)) \/ DivisionRaises(CommVotes(coms))
    THEN [raised |-> TRUE, text |-> <<>>]
    ELSE LET sub_up_perc  == (Ups(subs) * 100) \div SubVotes(subs)
             comm_up_perc == (Ups(coms) * 100) \div CommVotes(coms)
         IN  [raised |-> FALSE,
              text |->
                <<Lit("||Submissions|%|Comments|%|\n:-:|--:|--:|--:|--:\n")>>
                \o StatsRow("Total", Len(subs), <<>>, Len(coms), <<>>)
                \o StatsRow("Unique Redditors", Len(subrs), <<>>, Len(comrs), <<>>)
                \o StatsRow("Upvotes", Ups(subs), Percent(sub_up_perc),
                            Ups(coms), Percent(comm_up_perc))
                \o StatsRow("Downvotes", Downs(subs), Percent(100 - sub_up_perc),
                            Downs(coms), Percent(100 - comm_up_perc))
                \o <<Lit("\n")>>]

Scores(items) == [i \in 1..Len(items) |-> items[i].score]

comment_score(c) == c.ups - c.downs

CommentScores(items) == [i \in 1..Len(items) |-> comment_score(items[i])]

ScoreKey(sub) == [k1 |-> sub.score, k2 |-> 0]

CommentKey(c) == [k1 |-> comment_score(c), k2 |-> 0]

SubmitterKey_TotalOnly(group) == [k1 |-> SumSeq(Scores(group.items)), k2 |-> 0]

\* key of the sorted() of top_submitters: (sum of scores, number of items)
SubmitterKey(group) ==
    [k1 |-> SumSeq(Scores(group.items)), k2 |-> Len(group.items)]

\* key of the sorted() of top_commenters
CommenterKey(group) ==
    [k1 |-> SumSeq(CommentScores(group.items)), k2 |-> Len(group.items)]

\* the list top_submitters iterates over; empty where it returns ''
top_submitters_list(subrs, num) ==
    LET n == Min(num, Len(subrs))
    IN  IF n <= 0 THEN <<>>
        ELSE Take(SortedReverse(subrs, [i \in 1..Len(subrs) |-> SubmitterKey(subrs[i])]),
                  n)

top_commenters_list(comrs, num) ==
    LET n == Min(num, Len(comrs))
    IN  IF n <= 0 THEN <<>>
        ELSE Take(SortedReverse(comrs, [i \in 1..Len(comrs) |-> CommenterKey(comrs[i])]),
                  n)

\* the part of a line up to the title, shared by top_submitters/top_submissions
TitleItem(sub, bullet) ==
    IF ~sub.url.is_permalink
    THEN <<Lit(bullet), Lit("[")>> \o CleanTitle(sub.title) \o <<Lit("](")>>
         \o sub.url.text \o <<Lit(")")>>
    ELSE <<Lit(bullet)>> \o CleanTitle(sub.title)

NestedItem(sub) ==
    TitleItem(sub, "  0. ") \o <<Lit(" (")>> \o Fmt_d(sub.score)
    \o <<Lit(" pts, [")>> \o Fmt_d(sub.num_comments) \o <<Lit(" comments](")>>
    \o _permalink(sub.permalink) \o <<Lit("))\n")>>

RECURSIVE NestedItems(_)
NestedItems(subs) ==
    IF subs = <<>> THEN <<>> ELSE NestedItem(Head(subs)) \o NestedItems(Tail(subs))

\* the items nested under one submitter: the num_submissions best by score
NestedOf(group, k) ==
    Take(SortedReverse(group.items,
                       [i \in 1..Len(group.items) |-> ScoreKey(group.items[i])]), k)

SubmitterEntry(group, k) ==
    <<Lit("0. ")>> \o Fmt_d(SumSeq(Scores(group.items))) \o <<Lit(" pts, ")>>
    \o Fmt_d(Len(group.items)) \o <<Lit(" submissions: ")>> \o _user(group.author)
    \o <<Lit("\n")>> \o NestedItems(NestedOf(group, k))
    \o <<Lit("\n")>>

RECURSIVE SubmitterEntries(_, _)
SubmitterEntries(groups, k) ==
    IF groups = <<>> THEN <<>>
    ELSE SubmitterEntry(Head(groups), k)
         \o SubmitterEntries(Tail(groups), k)

top_submitters(subrs, num, k) ==
    IF top_submitters_list(subrs, num) = <<>> THEN <<>>
    ELSE post_header("Top Submitters' Top Submissions")
         \o SubmitterEntries(top_submitters_list(subrs, num), k)

CommenterEntry(group) ==
    <<Lit("0. ")>> \o _user(group.author) \o <<Lit(" (")>>
    \o Fmt_d(SumSeq(CommentScores(group.items))) \o <<Lit(" pts, ")>>
    \o Fmt_d(Len(group.items)) \o <<Lit(" comments)\n")>>

RECURSIVE CommenterEntries(_)
CommenterEntries(groups) ==
    IF groups = <<>> THEN <<>>
    ELSE CommenterEntry(Head(groups)) \o CommenterEntries(Tail(groups))

top_commenters(comrs, num) ==
    IF top_commenters_list(comrs, num) = <<>> THEN <<>>
    ELSE post_header("Top Commenters")
         \o CommenterEntries(top_commenters_list(comrs, num)) \o <<Lit("\n")>>

SubmissionEntry(sub) ==
    TitleItem(sub, "0. ") \o <<Lit(" by ")>> \o _user(sub.author) \o <<Lit(" (")>>
    \o Fmt_d(sub.score) \o <<Lit(" pts, [")>> \o Fmt_d(sub.num_comments)
    \o <<Lit(" comments](")>> \o _permalink(sub.permalink) \o <<Lit("))\n")>>

RECURSIVE SubmissionEntries(_)
SubmissionEntries(subs) ==
    IF subs = <<>> THEN <<>>
    ELSE SubmissionEntry(Head(subs)) \o SubmissionEntries(Tail(subs))

top_submissions(subs, num) ==
    LET n == Min(num, Len(subs))
    IN  IF n <= 0 THEN <<>>
        ELSE post_header("Top Submissions")
             \o SubmissionEntries(
                  Take(SortedReverse(subs, [i \in 1..Len(subs) |-> ScoreKey(subs[i])]), n))
             \o <<Lit("\n")>>

CommentEntry(c) ==
    <<Lit("0. ")>> \o Fmt_d(comment_score(c)) \o <<Lit(" pts: ")>>
    \o _user(c.author) \o <<Lit("'s [comment](")>> \o _permalink(c.permalink)
    \o <<Lit(") in ")>> \o CleanTitle(c.submission_title) \o <<Lit("\n")>>

RECURSIVE CommentEntries(_)
CommentEntries(coms) ==
    IF coms = <<>> THEN <<>>
    ELSE CommentEntry(Head(coms)) \o CommentEntries(Tail(coms))

top_comments(coms, num) ==
    LET n == Min(num, Len(coms))
    IN  IF n <= 0 THEN <<>>
        ELSE post_header("Top Comments")
             \o CommentEntries(
                  Take(SortedReverse(coms, [i \in 1..Len(coms) |-> CommentKey(coms[i])]), n))
             \o <<Lit("\n")>>

\* post_footer % (prev, self.max_date)
post_footer(link, hi) ==
    <<Lit(">Generated with [BBoe](/user/bboe)'s [Subreddit Stats]"),
      Lit("(https://github.com/bboe/subreddit_stats)  \n")>>
    \o (IF link.some
        THEN <<Lit("[Previous Stat](")>> \o _permalink(SubmissionPermalink)
             \o <<Lit(")  \n")>>
        ELSE <<>>)
    \o <<Mark>> \o Fmt_d(hi)

-----------------------------------------------------------------------------
(* Inputs of the report: the state a successful fetch leaves behind *)

MaxPosts == 5

MaxCalls == 3

AuthorA == <<Fill(5)>>
AuthorB == <<Fill(3), Us, Fill(4)>>

MkComment(author, ups, downs, title) ==
    [author |-> author, ups |-> ups, downs |-> downs,
     permalink |-> CommentPermalink, submission_title |-> title]

TitleSpaced == <<Sp, Fill(20), Nl, Fill(5), Sp>>
TitleMarked == <<Fill(10), Mark, Dig(7)>>

\* the posts a report is assembled from; created_utc orders them
CollectedKinds ==
    { [created_utc |-> 7, author |-> AuthorA, title |-> TitleSpaced,
       url |-> [is_permalink |-> FALSE, text |-> <<Fill(890)>>],
       permalink |-> SubmissionPermalink, score |-> 2, ups |-> 3, downs |-> 1,
       num_comments |-> 1, comments_raise |-> FALSE, orphaned |-> <<>>,
       all_comments_flat |-> <<MkComment(AuthorB, 4, 1, TitleSpaced)>>],
      [created_utc |-> 98, author |-> AuthorB, title |-> TitleMarked,
       url |-> [is_permalink |-> FALSE, text |-> <<Fill(1500)>>],
       permalink |-> SubmissionPermalink, score |-> 4, ups |-> 6, downs |-> 2,
       num_comments |-> 2, comments_raise |-> FALSE,
       orphaned |-> <<MkComment(None, 4, 1, TitleMarked)>>,
       all_comments_flat |-> <<MkComment(AuthorA, 8, 2, TitleMarked)>>],
      [created_utc |-> 10203, author |-> None, title |-> PlainTitle,
       url |-> [is_permalink |-> TRUE, text |-> <<>>],
       permalink |-> SubmissionPermalink, score |-> 0, ups |-> 0, downs |-> 0,
       num_comments |-> 3, comments_raise |-> TRUE, orphaned |-> <<>>,
       all_comments_flat |-> <<>>],
      [created_utc |-> 86420, author |-> AuthorA, title |-> PlainTitle,
       url |-> [is_permalink |-> FALSE, text |-> <<Fill(6000)>>],
       permalink |-> SubmissionPermalink, score |-> 2, ups |-> 3, downs |-> 1,
       num_comments |-> 0, comments_raise |-> FALSE, orphaned |-> <<>>,
       all_comments_flat |-> <<>>] }

\* self.submissions after a fetch that found something: sorted by created_utc
Collected ==
    UNION { { subs \in [1..n -> CollectedKinds] :
                \A i \in 1..n, j \in 1..n :
                    i < j => subs[i].created_utc <= subs[j].created_utc }
            : n \in 1..MaxPosts }

\* the lines standard input may hold, character by character
Lines ==
    { <<"y", "\n">>, <<"Y", "E", "S", "\n">>, <<" ", "y", "e", "s", " ", "\n">>,
      <<"n", "o", "\n">>, <<"y", "e", "\n">>, <<"\n">>, <<>> }

RateLimitExceeded(t) == [kind |-> "RateLimitExceeded", sleep_time |-> t, errors |-> <<>>]
ClientException      == [kind |-> "ClientException", sleep_time |-> 0, errors |-> <<>>]
ExceptionList(errs)  == [kind |-> "ExceptionList", sleep_time |-> 0, errors |-> errs]
Returns              == [kind |-> "returns", sleep_time |-> 0, errors |-> <<>>]

\* what one call of func may do
Outcomes ==
    { Returns,
      RateLimitExceeded(2),
      ExceptionList(<<ClientException, RateLimitExceeded(7), RateLimitExceeded(2)>>),
      ExceptionList(<<ClientException>>),
      ClientException }

-----------------------------------------------------------------------------
(* main after the fetch: process_*, publish_results, _submit *)

FetchIdle ==
    /\ now = 0
    /\ opt_days = 0
    /\ opt_prev = NoPrev
    /\ opt_no_self = FALSE
    /\ listing = <<>>
    /\ pos = 1

InitPublish ==
    /\ pc = "process"
    /\ FetchIdle
    /\ submissions \in Collected
    /\ min_date = submissions[1].created_utc
    /\ max_date = submissions[Len(submissions)].created_utc
    /\ prev_srs \in {NoneLink, Link(1)}
    /\ opt_submitters \in {0, 5}
    /\ opt_commenters \in {0, 10}
    /\ opt_debug \in BOOLEAN
    /\ comments = <<>>
    /\ submitters = <<>>
    /\ commenters = <<>>
    /\ body = <<>>
    /\ num_submissions = 0
    /\ debug = FALSE
    /\ answer = <<>>
    /\ out = <<>>
    /\ SubmitIdle
    /\ RankIdle

\* main: 'if options.commenters > 0'
RunsCommenters(n) == n > 0

ProcessSubmitters ==
    /\ pc = "process"
    /\ submitters' = GroupByAuthor(submissions)
    /\ pc' = IF RunsCommenters(opt_commenters) THEN "commenters" ELSE "publish"
    /\ UNCHANGED <<main_vars, min_date, max_date, prev_srs, submissions,
                   opt_submitters, opt_commenters, opt_debug, comments,
                   commenters, body, num_submissions, debug, answer, out,
                   submit_vars, raised, rank_vars>>

ProcessCommenters ==
    /\ pc = "commenters"
    /\ comments' = comments \o CollectComments(submissions)
    /\ commenters' = GroupByAuthor(comments')
    /\ pc' = "publish"
    /\ UNCHANGED <<main_vars, min_date, max_date, prev_srs, submissions,
                   opt_submitters, opt_commenters, opt_debug, submitters,
                   body, num_submissions, debug, answer, out,
                   submit_vars, raised, rank_vars>>

ZeroDivisionError == [kind |-> "ZeroDivisionError", sleep_time |-> 0, errors |-> <<>>]

\* the number of top submissions and top comments main asks for
TopSubmissionsAsked == 5
TopCommentsAsked == 5

\* the first num_submissions of publish_results
InitialNumSubmissions == 10

\* publish_results up to the loop
PublishBegin ==
    /\ pc = "publish"
    /\ IF basic_stats(submissions, comments, submitters, commenters).raised
       THEN /\ raised' = ZeroDivisionError
            /\ pc' = "raised"
            /\ UNCHANGED <<body, num_submissions, debug>>
       ELSE /\ body' = <<>>
            /\ num_submissions' = InitialNumSubmissions
            /\ debug' = opt_debug
            /\ pc' = "shrink"
            /\ UNCHANGED raised
    /\ UNCHANGED <<main_vars, min_date, max_date, prev_srs, submissions,
                   opt_submitters, opt_commenters, opt_debug, comments,
                   submitters, commenters, answer, out, submit_vars, rank_vars>>

\* the body assembled with k nested submissions per submitter
Assemble(k) ==
    basic_stats(submissions, comments, submitters, commenters).text
    \o top_submitters(submitters, opt_submitters, k)
    \o top_commenters(commenters, opt_commenters)
    \o top_submissions(submissions, TopSubmissionsAsked)
    \o top_comments(comments, TopCommentsAsked)
    \o post_footer(prev_srs, max_date)

\* the condition of the while loop
LoopCondition(b, k) == b = <<>> \/ (TextLen(b) > MAX_BODY_SIZE /\ k > 2)

TooBig_Never(b) == FALSE

TooBig(b) == TextLen(b) > MAX_BODY_SIZE

\* one iteration of the while loop
ShrinkStep ==
    /\ pc = "shrink"
    /\ LoopCondition(body, num_submissions)
    /\ body' = Assemble(num_submissions)
    /\ num_submissions' = num_submissions - 1
    /\ UNCHANGED <<pc, main_vars, min_date, max_date, prev_srs, submissions,
                   opt_submitters, opt_commenters, opt_debug, comments,
                   submitters, commenters, debug, answer, out, submit_vars,
                   raised, rank_vars>>

\* the loop ends; 'if len(body) > MAX_BODY_SIZE' and 'if not debug'
ShrinkEnd ==
    /\ pc = "shrink"
    /\ ~LoopCondition(body, num_submissions)
    /\ IF TooBig(body)
       THEN /\ out' = Append(out, "The resulting message is too big. Not submitting.")
            /\ debug' = TRUE
       ELSE UNCHANGED <<out, debug>>
    /\ pc' = IF debug' THEN "print" ELSE "confirm"
    /\ UNCHANGED <<main_vars, min_date, max_date, prev_srs, submissions,
                   opt_submitters, opt_commenters, opt_debug, comments,
                   submitters, commenters, body, num_submissions, answer,
                   submit_vars, raised, rank_vars>>

IsBlank(c) == c \in {" ", "\n", "\t"}

RECURSIVE StripLeft(_)
StripLeft(line) ==
    IF line # <<>> /\ IsBlank(Head(line)) THEN StripLeft(Tail(line)) ELSE line

RECURSIVE StripRight(_)
StripRight(line) ==
    IF line # <<>> /\ IsBlank(line[Len(line)])
    THEN StripRight(SubSeq(line, 1, Len(line) - 1)) ELSE line

LowerChar(c) ==
    CASE c = "Y" -> "y" [] c = "E" -> "e" [] c = "S" -> "s" [] c = "N" -> "n"
      [] c = "O" -> "o" [] OTHER -> c

\* line.strip().lower()
StripLower(line) ==
    LET stripped == StripRight(StripLeft(line))
    IN  [i \in 1..Len(stripped) |-> LowerChar(stripped[i])]

Affirmative(text) == text \in { <<"y">>, <<"y", "e", "s">> }

\* the prompt and the line read from standard input
Confirm ==
    /\ pc = "confirm"
    /\ \E line \in Lines :
         /\ answer' = StripLower(line)
         /\ IF Affirmative(answer')
            THEN /\ out' = Append(out, "Are you sure? yes/[no]: ")
                 /\ pc' = "submit"
            ELSE /\ out' = out \o <<"Are you sure? yes/[no]: ", "Submission aborted">>
                 /\ pc' = "print"
    /\ UNCHANGED <<main_vars, min_date, max_date, prev_srs, submissions,
                   opt_submitters, opt_commenters, opt_debug, comments,
                   submitters, commenters, body, num_submissions, debug,
                   submit_vars, raised, rank_vars>>

IsRateLimit_AnyError(e) == e.kind # "returns"

\* isinstance(error, RateLimitExceeded)
IsRateLimit(e) == e.kind = "RateLimitExceeded"

\* the first RateLimitExceeded of exception_list.errors, 0 if there is none
FirstRateLimit(errs) ==
    IF \E i \in 1..Len(errs) : IsRateLimit(errs[i])
    THEN CHOOSE i \in 1..Len(errs) :
           IsRateLimit(errs[i]) /\ \A j \in 1..(i - 1) : ~IsRateLimit(errs[j])
    ELSE 0

\* the except clauses of _submit that end in a sleep and another iteration
Retries(o) ==
    \/ IsRateLimit(o)
    \/ (o.kind = "ExceptionList" /\ FirstRateLimit(o.errors) # 0)

\* the argument of the sleep
SleepTime(o) ==
    IF IsRateLimit(o) THEN o.sleep_time
    ELSE o.errors[FirstRateLimit(o.errors)].sleep_time

\* one iteration of the 'while True' of _submit
SubmitAttempt ==
    /\ pc = "submit"
    /\ \E o \in Outcomes :
         /\ Retries(o) => Len(attempts) + 1 < MaxCalls
         /\ attempts' = Append(attempts, o)
         /\ IF o.kind = "returns"
            THEN /\ pc' = "submit_returned"
                 /\ UNCHANGED <<sleeps, raised, out>>
            ELSE IF Retries(o)
            THEN /\ sleeps' = Append(sleeps, SleepTime(o))
                 /\ out' = Append(out, "Sleeping")
                 /\ UNCHANGED <<pc, raised>>
            ELSE /\ raised' = o
                 /\ pc' = "submit_raised"
                 /\ UNCHANGED <<sleeps, out>>
    /\ UNCHANGED <<main_vars, min_date, max_date, prev_srs, submissions,
                   opt_submitters, opt_commenters, opt_debug, comments,
                   submitters, commenters, body, num_submissions, debug,
                   answer, rank_vars>>

\* publish_results: 'print(res.permalink); return'
SubmitReturned ==
    /\ pc = "submit_returned"
    /\ out' = Append(out, "permalink")
    /\ pc' = "done"
    /\ UNCHANGED <<main_vars, min_date, max_date, prev_srs, submissions,
                   opt_submitters, opt_commenters, opt_debug, comments,
                   submitters, commenters, body, num_submissions, debug,
                   answer, submit_vars, raised, rank_vars>>

\* publish_results: 'except Exception as error'
SubmitFailed ==
    /\ pc = "submit_raised"
    /\ out' = Append(out, "The submission failed:")
    /\ pc' = "print"
    /\ UNCHANGED <<main_vars, min_date, max_date, prev_srs, submissions,
                   opt_submitters, opt_commenters, opt_debug, comments,
                   submitters, commenters, body, num_submissions, debug,
                   answer, submit_vars, raised, rank_vars>>

\* publish_results: 'print(title); print(body)'
PrintReport ==
    /\ pc = "print"
    /\ out' = out \o <<"title", "body">>
    /\ pc' = "done"
    /\ UNCHANGED <<main_vars, min_date, max_date, prev_srs, submissions,
                   opt_submitters, opt_commenters, opt_debug, comments,
                   submitters, commenters, body, num_submissions, debug,
                   answer, submit_vars, raised, rank_vars>>

NextPublish ==
    \/ ProcessSubmitters
    \/ ProcessCommenters
    \/ PublishBegin
    \/ ShrinkStep
    \/ ShrinkEnd
    \/ Confirm
    \/ SubmitAttempt
    \/ SubmitReturned
    \/ SubmitFailed
    \/ PrintReport

SpecPublish == InitPublish /\ [][NextPublish]_vars

-----------------------------------------------------------------------------
(* top_submitters and top_commenters applied to author groups *)

MaxAuthors == 3

AuthorC == <<Fill(6)>>
AuthorD == <<Fill(7)>>

RankAuthors == {AuthorA, AuthorB, AuthorC, AuthorD}

\* the scores of one author's items
RankScoreLists ==
    { <<40, 30, 30>>, <<20, 20, 20, 20, 20>>, [i \in 1..10 |-> 9], <<50, 50>> }

\* the values of num tried
RankNums == {-1, 0, 2, 3}

RankPost(author, score) ==
    [created_utc |-> 7, author |-> author, title |-> PlainTitle,
     url |-> [is_permalink |-> TRUE, text |-> <<>>],
     permalink |-> SubmissionPermalink, score |-> score, ups |-> score,
     downs |-> 0, num_comments |-> 0, comments_raise |-> FALSE,
     orphaned |-> <<>>, all_comments_flat |-> <<>>]

\* a comment whose ups - downs is score
RankComment(author, score) == MkComment(author, score + 1, 1, PlainTitle)

\* mappings of at most MaxAuthors authors, in every iteration order
RankMaps ==
    UNION { { [i \in 1..n |-> [author |-> as[i], scores |-> ls[i]]] :
                as \in { a \in [1..n -> RankAuthors] :
                           \A i \in 1..n, j \in 1..n : i # j => a[i] # a[j] },
                ls \in [1..n -> RankScoreLists] } : n \in 0..MaxAuthors }

InitRank ==
    /\ pc = "rank"
    /\ FetchIdle
    /\ min_date = 0
    /\ max_date = 0
    /\ prev_srs = NoneLink
    /\ submissions = <<>>
    /\ \E m \in RankMaps :
         /\ submitters =
              [i \in 1..Len(m) |->
                 [author |-> m[i].author,
                  items |-> [j \in 1..Len(m[i].scores) |->
                               RankPost(m[i].author, m[i].scores[j])]]]
         /\ commenters =
              [i \in 1..Len(m) |->
                 [author |-> m[i].author,
                  items |-> [j \in 1..Len(m[i].scores) |->
                               RankComment(m[i].author, m[i].scores[j])]]]
    /\ opt_submitters = 0
    /\ opt_commenters = 0
    /\ opt_debug = FALSE
    /\ comments = <<>>
    /\ body = <<>>
    /\ num_submissions = 0
    /\ debug = FALSE
    /\ answer = <<>>
    /\ out = <<>>
    /\ SubmitIdle
    /\ RankIdle

Authors(groups) == [i \in 1..Len(groups) |-> groups[i].author]

RankSubmitters ==
    /\ pc = "rank"
    /\ \E n \in RankNums :
         /\ pc' = "ranked"
         /\ rank_of' = "submitters"
         /\ rank_n' = n
         /\ rank_list' = Authors(top_submitters_list(submitters, n))
         /\ rank_text' = top_submitters(submitters, n, InitialNumSubmissions)
    /\ UNCHANGED <<main_vars, min_date, max_date, prev_srs, submissions,
                   pub_vars, submit_vars, raised>>

RankCommenters ==
    /\ pc = "rank"
    /\ \E n \in RankNums :
         /\ pc' = "ranked"
         /\ rank_of' = "commenters"
         /\ rank_n' = n
         /\ rank_list' = Authors(top_commenters_list(commenters, n))
         /\ rank_text' = top_commenters(commenters, n)
    /\ UNCHANGED <<main_vars, min_date, max_date, prev_srs, submissions,
                   pub_vars, submit_vars, raised>>

NextRank ==
    \/ RankSubmitters
    \/ RankCommenters

SpecRank == InitRank /\ [][NextRank]_vars

-----------------------------------------------------------------------------
(* Claims about the window-mode collection (SpecFetch) *)

Retained == { submissions[i] : i \in 1..Len(submissions) }

OwnReport(s) == s.author = Me /\ StartsWithPrefix(s.title)

\* the marker written in the text of the post that prev_srs links to
LinkedMarker ==
    IF prev_srs.id = opt_prev.id
    THEN _previous_max(opt_prev.selftext).val
    ELSE _previous_max(listing[prev_srs.id].selftext).val

\* high_bound - duration for a nonzero duration, 0 otherwise
DurationDerived == IF opt_days # 0 THEN max_date - DAYS_IN_SECONDS * opt_days ELSE 0

\* C2: when the scan loop ends with at least one retained post, every retained
\* post satisfies low_bound < created <= high_bound, the bounds being min_date
\* and max_date as they stand at the end of the scan.
C2_RetainedInsideWindow ==
    (pc = "scanned" /\ submissions # <<>>)
        => \A s \in Retained : min_date < s.created_utc /\ s.created_utc <= max_date

\* C3: the scan skips, without stopping, a post with created > high_bound; it
\* stops at the first post with created <= low_bound, after which no further
\* post is examined or retained; and the listing [30, 20, 10] of ordinary posts
\* with low_bound 15 and high_bound 35 retains exactly the posts 30 and 20.
C3_Example ==
    /\ Len(listing) = 3
    /\ listing[1].created_utc = 30
    /\ listing[2].created_utc = 20
    /\ listing[3].created_utc = 10
    /\ \A i \in 1..3 : ~OwnReport(listing[i]) /\ ~(opt_no_self /\ listing[i].is_self)
    /\ min_date = 15
    /\ max_date = 35

C3_ScanSkipsAndStops ==
    /\ [][ (pc = "scan" /\ pos <= Len(listing))
             => /\ listing[pos].created_utc > max_date
                     => (pc' = "scan" /\ pos' = pos + 1 /\ submissions' = submissions)
                /\ (listing[pos].created_utc <= max_date
                      /\ listing[pos].created_utc <= min_date)
                     => (pc' = "scanned" /\ pos' = pos /\ submissions' = submissions)
          ]_vars
    /\ [][ pc = "scanned"
             => (pos' = pos /\ { s.id : s \in Retained }' = { s.id : s \in Retained })
          ]_vars
    /\ [](\A s \in Retained : pc \in {"scan", "scanned"} => s.id < pos)
    /\ []((pc = "scanned" /\ C3_Example)
             => (pos = 3 /\ { s.created_utc : s \in Retained } = {30, 20}
                   /\ Len(submissions) = 2))

C3_Witness ==
    /\ pc = "scanned"
    /\ C3_Example
    /\ pos = 3
    /\ Len(submissions) = 2

\* C4: once a continuation marker has been obtained (from the explicit previous
\* report or from the first previous-report post of the scan), the low bound
\* governing the scan is max(duration-derived bound, marker value).
C4_MarkerNeverDiscarded ==
    (pc \in {"scan", "scanned"} /\ prev_srs.some)
        => min_date = Max(DurationDerived, LinkedMarker)

\* C10: no retained post is a report of the run's own account; with no explicit
\* previous report, the first such post met in the window, and only that one,
\* raises low_bound to max(low_bound, its marker) and becomes the back-link;
\* with an explicit previous report the scan leaves low_bound and the back-link
\* unchanged.
ReportsMet == { i \in 1..(pos - 1) : OwnReport(listing[i]) /\ listing[i].created_utc <= max_date }

FirstReportMet == CHOOSE i \in ReportsMet : \A j \in ReportsMet : i <= j

C10_PreviousReportHandling ==
    /\ [](\A s \in Retained : ~OwnReport(s))
    /\ []((pc \in {"scan", "scanned"} /\ ~opt_prev.given)
             => IF ReportsMet = {}
                THEN prev_srs = NoneLink /\ min_date = DurationDerived
                ELSE /\ prev_srs = Link(FirstReportMet)
                     /\ min_date = Max(DurationDerived,
                                       _previous_max(listing[FirstReportMet].selftext).val))
    /\ [][ (pc = "scan" /\ opt_prev.given)
             => (min_date' = min_date /\ prev_srs' = prev_srs) ]_vars

C10_Witness ==
    /\ pc = "scanned"
    /\ ~opt_prev.given
    /\ Cardinality(ReportsMet) >= 2
    /\ prev_srs = Link(FirstReportMet)
    /\ min_date > DurationDerived

-----------------------------------------------------------------------------
(* Claims about the report (SpecPublish) *)

Printed(what) == \E i \in 1..Len(out) : out[i] = what

Submitted == attempts # <<>> /\ attempts[Len(attempts)].kind = "returns"

EndsWithTitleAndBody ==
    Len(out) >= 2 /\ out[Len(out) - 1] = "title" /\ out[Len(out)] = "body"

\* C1: func is called only if debug was not requested, the final body has at
\* most MAX_BODY_SIZE characters and the line read is 'y' or 'yes' (stripped,
\* lower-cased); once publish_results has assembled a body and ended, either
\* the report was submitted, or (debug, oversize, declined, submit raised) the
\* last things printed are the title and the body and nothing was submitted.
C1_SubmitOnlyWhenAllowed ==
    /\ (attempts # <<>> \/ pc \in {"submit", "submit_returned", "submit_raised"})
         => /\ ~opt_debug
            /\ TextLen(body) <= MAX_BODY_SIZE
            /\ answer \in { <<"y">>, <<"y", "e", "s">> }
    /\ pc = "done"
         => \/ Submitted /\ ~Printed("title") /\ ~Printed("body")
            \/ ~Submitted /\ EndsWithTitleAndBody
    /\ (pc = "done" /\ (opt_debug \/ TextLen(body) > MAX_BODY_SIZE))
         => (attempts = <<>> /\ answer = <<>> /\ EndsWithTitleAndBody)

C1_Witness == pc = "done" /\ Submitted /\ Len(attempts) = 2

\* C5: the marker extracted from an assembled body is the max_date the body
\* was assembled with, also when the body holds other matches of the pattern.
C5_MarkerRoundTrip ==
    body # <<>> => _previous_max(body) = [ok |-> TRUE, val |-> max_date]

C5_Witness ==
    /\ body # <<>>
    /\ Len(re_marker_findall(body)) >= 2
    /\ ToFloat(re_marker_findall(body)[1]) # max_date
    /\ _previous_max(body).val = max_date

\* the rate-limit signal an outcome carries: itself, or the first one of a batch
CarriesRateLimit(o) ==
    \/ o.kind = "RateLimitExceeded"
    \/ (o.kind = "ExceptionList"
          /\ \E i \in 1..Len(o.errors) : o.errors[i].kind = "RateLimitExceeded")

CarriedWait(o) ==
    IF o.kind = "RateLimitExceeded" THEN o.sleep_time
    ELSE LET first == CHOOSE i \in 1..Len(o.errors) :
                        /\ o.errors[i].kind = "RateLimitExceeded"
                        /\ \A j \in 1..(i - 1) : o.errors[j].kind # "RateLimitExceeded"
         IN  o.errors[first].sleep_time

\* C6: every call of func but the last failed with a rate-limit signal, alone
\* or in a batch, and was followed by exactly one sleep of the wait it carries;
\* a failure that carries none is raised at once, unslept; a rate limit of
\* wait 2 followed by a success gives the one sleep 2 and the result.
C6_RetryOnlyOnRateLimit ==
    /\ \A i \in 1..(Len(attempts) - 1) : CarriesRateLimit(attempts[i])
    /\ Len(sleeps) = Cardinality({ i \in 1..Len(attempts) : CarriesRateLimit(attempts[i]) })
    /\ \A i \in 1..Len(sleeps) : sleeps[i] = CarriedWait(attempts[i])
    /\ pc = "submit" => Len(sleeps) = Len(attempts)
    /\ pc = "submit_returned" => Submitted
    /\ (attempts # <<>> /\ ~CarriesRateLimit(attempts[Len(attempts)]) /\ ~Submitted)
         => (raised = attempts[Len(attempts)] /\ pc \in {"submit_raised", "print", "done"})
    /\ (raised # NoError /\ raised # ZeroDivisionError)
         => (attempts # <<>> /\ raised = attempts[Len(attempts)]
               /\ ~CarriesRateLimit(raised))
    /\ attempts = <<RateLimitExceeded(2), Returns>>
         => (sleeps = <<2>> /\ pc \in {"submit_returned", "done"})

C6_Witness ==
    /\ attempts = <<RateLimitExceeded(2), Returns>>
    /\ sleeps = <<2>>
    /\ pc = "submit_returned"

\* C7: basic_stats raises no arithmetic error, whatever was collected.
C7_NoArithmeticFailure == raised # ZeroDivisionError

Flagged == Printed("The resulting message is too big. Not submitting.")

\* C9: the report is flagged oversize only if its rendering with k = 2 nested
\* items per submitter exceeds MAX_BODY_SIZE: a report whose k = 2 rendering
\* fits the budget is never flagged oversize.
C9_OversizeOnlyAfterK2 ==
    Flagged => TextLen(Assemble(2)) > MAX_BODY_SIZE

-----------------------------------------------------------------------------
(* Claims about the ranking (SpecRank) *)

RankedGroups == IF rank_of = "submitters" THEN submitters ELSE commenters

GroupOf(author) ==
    CHOOSE g \in { RankedGroups[i] : i \in 1..Len(RankedGroups) } : g.author = author

\* total score of an author's items: score for posts, ups - downs for comments
Total(author) ==
    LET items == GroupOf(author).items
    IN  IF rank_of = "submitters"
        THEN SumSeq([i \in 1..Len(items) |-> items[i].score])
        ELSE SumSeq([i \in 1..Len(items) |-> items[i].ups - items[i].downs])

Count(author) == Len(GroupOf(author).items)

PairGreater(a, b) ==
    Total(a) > Total(b) \/ (Total(a) = Total(b) /\ Count(a) > Count(b))

Listed == { rank_list[i] : i \in 1..Len(rank_list) }

AllAuthors == { RankedGroups[i].author : i \in 1..Len(RankedGroups) }

\* (A,100,3), (B,100,5), (C,90,10) in this iteration order
ExampleGroups ==
    /\ Len(RankedGroups) = 3
    /\ Authors(RankedGroups) = <<AuthorA, AuthorB, AuthorC>>
    /\ Total(AuthorA) = 100 /\ Count(AuthorA) = 3
    /\ Total(AuthorB) = 100 /\ Count(AuthorB) = 5
    /\ Total(AuthorC) = 90 /\ Count(AuthorC) = 10

\* C8: the authors listed are at most n authors of the mapping, each listed
\* once, in descending order of (total, count); no unlisted author has a
\* greater pair than a listed one; the example gives [B, A, C]; n <= 0 gives
\* the empty result.
C8_TopAuthorsOrdered ==
    rank_of # "none" =>
        /\ Listed \subseteq AllAuthors
        /\ Cardinality(Listed) = Len(rank_list)
        /\ rank_n > 0 => Len(rank_list) = Min(rank_n, Len(RankedGroups))
        /\ \A i \in 1..Len(rank_list), j \in 1..Len(rank_list) :
             i < j => ~PairGreater(rank_list[j], rank_list[i])
        /\ \A u \in AllAuthors \ Listed, l \in Listed : ~PairGreater(u, l)
        /\ rank_n <= 0 => (rank_list = <<>> /\ rank_text = <<>>)
        /\ (rank_list = <<>>) <=> (rank_text = <<>>)
        /\ (ExampleGroups /\ rank_n = 3) => rank_list = <<AuthorB, AuthorA, AuthorC>>

C8_Witness ==
    /\ rank_of = "submitters"
    /\ ExampleGroups
    /\ rank_n = 3
    /\ rank_list = <<AuthorB, AuthorA, AuthorC>>

=============================================================================
